---- MODULE Spec2Model ----
(***************************************************************************)
(* Incremental synchronisation and aggregation pipeline of the            *)
(* liquidations chart: src/src/data.py (remote listing, local inventory,   *)
(* diff, threaded download/extract), src/src/summary.py (daily summary)    *)
(* and show_plot of src/src/plot.py (the pipeline entry point).            *)
(*                                                                         *)
(* Strings that the code takes apart (object keys, file names) are         *)
(* sequences of tokens; the token of a date is its "%Y-%m-%d" text.        *)
(***************************************************************************)
EXTENDS Integers, Sequences, FiniteSets, TLC

VARIABLES
    published,        \* remote store: day numbers whose archive is published
    localFiles,       \* data/BTCUSDT/um/: set of [name, rows]
    summaryFile,      \* data/summary/BTCUSDT/um/liquidation_summary.csv
    pc,               \* position of the main thread in show_plot
    crashSite,        \* call that raised out of show_plot ("none" if none)
    existing_dates,   \* get_new_data: local variable
    local_dates,      \* get_new_data: local variable
    missing_dates,    \* get_new_data: local variable and return value
    fut,              \* state of the future of each submitted date
    fault,            \* what the environment did to the job of each date
    collected,        \* futures as_completed has handed to the main thread
    caught,           \* futures whose result() raised into the except clause
    publishedAtPlan,  \* history: the remote store when the listing was made
    prev,             \* history: what the run before this one left behind
    sameRemote        \* history: the store is as the run before listed it

vars == <<published, localFiles, summaryFile, pc, crashSite, existing_dates,
          local_dates, missing_dates, fut, fault, collected, caught,
          publishedAtPlan, prev, sameRemote>>

----------------------------------------------------------------------------
(* Bounds *)

MaxDates == 3      \* days the remote store may publish
PageCap == 4       \* keys the store returns in one listing response
MaxRows == 4       \* rows of the raw corpus built in SpecAgg

(* Program constants *)

max_workers == 10
MsPerSecond == 1000
SecondsPerDay == 86400

DateText == <<"2024-01-01", "2024-01-02", "2024-01-03", "2024-01-04">>

Days == 1..MaxDates

----------------------------------------------------------------------------
(* Sequence helpers *)

RECURSIVE Flatten(_)
Flatten(ss) == IF ss = <<>> THEN <<>> ELSE Head(ss) \o Flatten(Tail(ss))

Take(s, n) == SubSeq(s, 1, IF n < Len(s) THEN n ELSE Len(s))

RECURSIVE SortedSeq(_)
SortedSeq(S) ==
    IF S = {} THEN <<>>
    ELSE LET m == CHOOSE x \in S : \A y \in S : x <= y
         IN <<m>> \o SortedSeq(S \ {m})

\* The sequences that hold each element of S once.
RECURSIVE Orderings(_)
Orderings(S) ==
    IF S = {} THEN {<<>>}
    ELSE UNION {{<<x>> \o s : s \in Orderings(S \ {x})} : x \in S}

----------------------------------------------------------------------------
(* Names *)

Prefix == "data/futures/um/daily/liquidationSnapshot/BTCUSDT/"

ZipKey(d) == <<Prefix, "BTCUSDT-", "liquidationSnapshot-", DateText[d], ".", "zip">>

ChecksumKey(d) == ZipKey(d) \o <<".", "CHECKSUM">>

CsvName(d) == <<"BTCUSDT-", "liquidationSnapshot-", DateText[d], ".", "csv">>

endswith(name, ext) ==
    /\ Len(name) >= 2
    /\ name[Len(name) - 1] = "."
    /\ name[Len(name)] = ext

\* filename.split("liquidationSnapshot-")[-1].split(".")[0]
extract_date_from_filename(filename) ==
    LET marks == {i \in DOMAIN filename : filename[i] = "liquidationSnapshot-"}
        from == IF marks = {} THEN 1
                ELSE (CHOOSE i \in marks : \A j \in marks : j <= i) + 1
        after == SubSeq(filename, from, Len(filename))
        dots == {i \in DOMAIN after : after[i] = "."}
        upto == IF dots = {} THEN Len(after)
                ELSE (CHOOSE i \in dots : \A j \in dots : i <= j) - 1
    IN SubSeq(after, 1, upto)

\* datetime.strptime(date, "%Y-%m-%d"): the day of a date text
strptime(date) == CHOOSE d \in DOMAIN DateText : <<DateText[d]>> = date

\* date.strftime("%Y-%m-%d")
strftime(d) == DateText[d]

----------------------------------------------------------------------------
(* Remote store *)

\* One response of the listing endpoint: the keys under the prefix in key
\* order, cut at the store's page size.
ListObjectsResponse ==
    Take(Flatten([i \in 1..Cardinality(published) |->
                    LET d == SortedSeq(published)[i]
                    IN <<ZipKey(d), ChecksumKey(d)>>]), PageCap)

get_existing_files ==
    LET keys == ListObjectsResponse
    IN {keys[i] : i \in {j \in DOMAIN keys : endswith(keys[j], "zip")}}

\* The scan with the archives' extension in the pattern.
get_local_dates_zip ==
    {extract_date_from_filename(f.name) :
        f \in {g \in localFiles : endswith(g.name, "zip")}}

get_local_dates ==
    {extract_date_from_filename(f.name) :
        f \in {g \in localFiles : endswith(g.name, "csv")}}

----------------------------------------------------------------------------
(* Raw records and archives *)

Row(t, s, q, p) ==
    [time |-> t, side |-> s, original_quantity |-> q, average_price |-> p]

DayMs == MsPerSecond * SecondsPerDay

\* The member of the archive the store publishes for day d.
ArchiveRows(d) ==
    << Row((d - 1) * DayMs + 1000, "BUY", 2, 100),
       Row((d - 1) * DayMs + 2000, "SELL", 1, 200) >>

\* What extractall has written of a member when it raises part-way: the
\* file is created and the last chunk is missing.
PartialRows(d) == SubSeq(ArchiveRows(d), 1, Len(ArchiveRows(d)) - 1)

\* What can happen to one job.
Faults == {"ok", "transport", "http", "notzip", "badcrc", "mkdir", "write"}

WriteFile(files, name, rows) ==
    {f \in files : f.name # name} \cup {[name |-> name, rows |-> rows]}

\* The exception the body of download_and_extract_zip raises under fault f,
\* and whether the raising statement is inside the try block.
Raised(f) ==
    CASE f = "mkdir"     -> [type |-> "OSError", inTry |-> FALSE]           \* os.makedirs
      [] f = "transport" -> [type |-> "RequestException", inTry |-> TRUE]  \* requests.get
      [] f = "http"      -> [type |-> "RequestException", inTry |-> TRUE]  \* raise_for_status
      [] f = "notzip"    -> [type |-> "BadZipFile", inTry |-> TRUE]        \* zipfile.ZipFile
      [] f = "badcrc"    -> [type |-> "BadZipFile", inTry |-> TRUE]        \* extractall
      [] f = "write"     -> [type |-> "OSError", inTry |-> TRUE]           \* extractall
      [] OTHER           -> [type |-> "none", inTry |-> TRUE]

\* The try block without its second except clause.
ExceptClauses_request_only == {"RequestException"}

\* The except clauses of the try block.
ExceptClauses == {"RequestException", "BadZipFile"}

\* zip_ref.extractall(extract_to): the directory after the call, which
\* writes straight into the final directory.
extractall(files, date, f) ==
    IF f = "ok" THEN WriteFile(files, CsvName(date), ArchiveRows(date))
    ELSE IF f \in {"badcrc", "write"}
         THEN WriteFile(files, CsvName(date), PartialRows(date))
         ELSE files

\* download_and_extract_zip(symbol, date, market, base_extract_to) under the
\* fault f: how the call ends and what the directory holds afterwards.
download_and_extract_zip(date, f) ==
    LET date_str == strftime(date)
        \* the day whose archive the url names
        archive == CHOOSE d \in DOMAIN DateText : DateText[d] = date_str
        e == Raised(f)
    IN [outcome |-> IF e.type = "none" \/ (e.inTry /\ e.type \in ExceptClauses)
                    THEN "returned" ELSE "raised",
        files |-> extractall(localFiles, archive, f)]

----------------------------------------------------------------------------
(* summary.py *)

\* datetime.utcfromtimestamp(timestamp / 1000).strftime("%Y-%m-%d"): the UTC
\* day of a millisecond timestamp. The day's number stands for its text:
\* "%Y-%m-%d" texts are ordered as the days are.
convert_timestamp_to_date(timestamp) == (timestamp \div MsPerSecond) \div SecondsPerDay

\* all_data.drop_duplicates(): the first occurrence of each row is kept
RECURSIVE drop_duplicates(_)
drop_duplicates(rows) ==
    IF rows = <<>> THEN <<>>
    ELSE LET front == drop_duplicates(SubSeq(rows, 1, Len(rows) - 1))
             last == rows[Len(rows)]
         IN IF \E i \in DOMAIN front : front[i] = last THEN front
            ELSE Append(front, last)

RECURSIVE SumSeq(_)
SumSeq(s) == IF s = <<>> THEN 0 ELSE Head(s) + SumSeq(Tail(s))

SideRank(side) == IF side = "BUY" THEN 1 ELSE 2

\* The keys of all_data.groupby(["date", "side"]), which sorts them.
RECURSIVE SortedKeys(_)
SortedKeys(K) ==
    IF K = {} THEN <<>>
    ELSE LET m == CHOOSE x \in K : \A y \in K :
                      \/ x[1] < y[1]
                      \/ x[1] = y[1] /\ SideRank(x[2]) <= SideRank(y[2])
         IN <<m>> \o SortedKeys(K \ {m})

groupby_keys(all_data) ==
    SortedKeys({<<convert_timestamp_to_date(all_data[i].time), all_data[i].side>> :
                   i \in DOMAIN all_data})

\* .agg(total_volume=("volume", "sum"), total_liquidations=("original_quantity", "sum"))
agg(all_data, key) ==
    LET members == SelectSeq(all_data, LAMBDA r :
                       /\ convert_timestamp_to_date(r.time) = key[1]
                       /\ r.side = key[2])
    IN [date |-> key[1], side |-> key[2],
        total_volume |-> SumSeq([i \in DOMAIN members |->
            members[i].original_quantity * members[i].average_price]),
        total_liquidations |-> SumSeq([i \in DOMAIN members |->
            members[i].original_quantity])]

\* The index with one entry per (date, side) group, as before the pivot.
pivot_index_per_group(summary) == [i \in DOMAIN summary |-> summary[i].date]

\* The index of summary.pivot(index="date", ...): each date once, sorted.
pivot_index(summary) == SortedSeq({summary[i].date : i \in DOMAIN summary})

\* One cell of the pivot after fillna(0): the group's volume and quantity, 0
\* where the group is absent. average_price is total_volume /
\* total_liquidations, NaN (then 0 by fillna) where the quantity is 0; it is
\* carried as the pair of its numerator and denominator.
cell(summary, date, side) ==
    LET hit == {i \in DOMAIN summary : summary[i].date = date /\ summary[i].side = side}
    IN IF hit = {} THEN [vol |-> 0, num |-> 0, den |-> 1]
       ELSE LET g == summary[CHOOSE i \in hit : TRUE]
            IN IF g.total_liquidations = 0
               THEN [vol |-> g.total_volume, num |-> 0, den |-> 1]
               ELSE [vol |-> g.total_volume, num |-> g.total_volume,
                     den |-> g.total_liquidations]

\* One row of the table written: Shorts, Longs and the volume-weighted
\* price as a fraction; den = 0 is the NaN of 0 / 0.
summary_row(summary, date) ==
    LET b == cell(summary, date, "BUY")
        s == cell(summary, date, "SELL")
    IN [date |-> date, Shorts |-> b.vol, Longs |-> s.vol,
        price |-> [num |-> b.num * b.vol * s.den + s.num * s.vol * b.den,
                   den |-> b.den * s.den * (b.vol + s.vol)]]

\* summarize_liquidations(coin, market) on the files glob.glob returned, in
\* the order it returned them: the exception raised, or the table written.
summarize_liquidations(all_files) ==
    IF all_files = <<>>
    THEN \* pd.concat([]) raises ValueError
         [raised |-> "ValueError", table |-> <<>>]
    ELSE LET all_data == drop_duplicates(
                 Flatten([i \in DOMAIN all_files |-> all_files[i].rows]))
             keys == groupby_keys(all_data)
             summary == [i \in DOMAIN keys |-> agg(all_data, keys[i])]
             sides == {summary[i].side : i \in DOMAIN summary}
             index == pivot_index(summary)
         IN IF sides # {"BUY", "SELL"}
            THEN \* a side no row has gives no column: KeyError
                 [raised |-> "KeyError", table |-> <<>>]
            ELSE [raised |-> "none",
                  table |-> [i \in DOMAIN index |-> summary_row(summary, index[i])]]

\* glob.glob("data/{coin}/{market}/*.csv"): the order is the file system's
glob == Orderings({f \in localFiles : endswith(f.name, "csv")})

----------------------------------------------------------------------------
(* data.py: get_new_data, and show_plot of plot.py *)

NoJobs == [d \in Days |-> "none"]

NoSummary == [exists |-> FALSE, table |-> <<>>]

CompleteFiles(S) == {[name |-> CsvName(d), rows |-> ArchiveRows(d)] : d \in S}

Init ==
    /\ published \in SUBSET Days
    /\ localFiles \in {CompleteFiles(S) : S \in SUBSET Days}
    /\ \/ summaryFile = NoSummary
       \/ /\ localFiles # {}
          /\ summaryFile = [exists |-> TRUE,
                 table |-> summarize_liquidations(CHOOSE o \in glob : TRUE).table]
    /\ pc = "idle"
    /\ crashSite = "none"
    /\ existing_dates = {}
    /\ local_dates = {}
    /\ missing_dates = {}
    /\ fut = NoJobs
    /\ fault = NoJobs
    /\ collected = {}
    /\ caught = {}
    /\ publishedAtPlan = {}
    /\ prev = [has |-> FALSE, nofile |-> {}, published |-> {}]
    /\ sameRemote = FALSE

\* The faults after which no file of the date is in the directory.
LeavesNothing == {"transport", "http", "notzip", "mkdir"}

\* The difference taken the other way round.
diff_swapped(existing, local) == local \ existing

\* missing_dates = existing_dates - local_dates
diff(existing, local) == existing \ local

\* get_new_data up to the submission of the jobs: the listing, the local
\* scan, the difference, one executor.submit per missing date.
GetNewData ==
    /\ pc = "idle"
    /\ LET existing == {extract_date_from_filename(f) : f \in get_existing_files}
           local == get_local_dates
           missing == diff(existing, local)
       IN /\ existing_dates' = existing
          /\ local_dates' = local
          /\ missing_dates' = missing
          /\ fut' = [d \in Days |->
                       IF d \in {strptime(x) : x \in missing} THEN "pending" ELSE "none"]
    /\ fault' = NoJobs
    /\ collected' = {}
    /\ caught' = {}
    /\ publishedAtPlan' = published
    /\ sameRemote' = (prev.has /\ published = prev.published)
    /\ prev' = [prev EXCEPT !.published = {}]
    /\ pc' = "as_completed"
    /\ UNCHANGED <<published, localFiles, summaryFile, crashSite>>

\* A worker thread of the pool takes a queued job.
Start(d) ==
    /\ fut[d] = "pending"
    /\ Cardinality({e \in Days : fut[e] = "running"}) < max_workers
    /\ fut' = [fut EXCEPT ![d] = "running"]
    /\ UNCHANGED <<published, localFiles, summaryFile, pc, crashSite, existing_dates,
                   local_dates, missing_dates, fault, collected, caught,
                   publishedAtPlan, prev, sameRemote>>

\* The worker runs download_and_extract_zip for its date to the end.
Finish(d, f) ==
    /\ fut[d] = "running"
    /\ LET r == download_and_extract_zip(d, f)
       IN /\ fut' = [fut EXCEPT ![d] = r.outcome]
          /\ localFiles' = r.files
    /\ fault' = [fault EXCEPT ![d] = f]
    /\ UNCHANGED <<published, summaryFile, pc, crashSite, existing_dates,
                   local_dates, missing_dates, collected, caught,
                   publishedAtPlan, prev, sameRemote>>

Finished == {"returned", "raised"}

\* The turn of the loop without the try: the job's exception leaves
\* get_new_data.
Collect_reraises(d) ==
    /\ pc = "as_completed"
    /\ fut[d] \in Finished
    /\ d \notin collected
    /\ collected' = collected \cup {d}
    /\ caught' = caught
    /\ IF fut[d] = "raised"
       THEN pc' = "crashed" /\ crashSite' = "get_new_data"
       ELSE pc' = pc /\ crashSite' = crashSite
    /\ UNCHANGED <<published, localFiles, summaryFile, existing_dates,
                   local_dates, missing_dates, fut, fault, publishedAtPlan, prev,
                   sameRemote>>

\* One turn of the loop over as_completed(futures): future.result() inside
\* try / except Exception.
Collect(d) ==
    /\ pc = "as_completed"
    /\ fut[d] \in Finished
    /\ d \notin collected
    /\ collected' = collected \cup {d}
    /\ caught' = IF fut[d] = "raised" THEN caught \cup {d} ELSE caught
    /\ UNCHANGED <<published, localFiles, summaryFile, pc, crashSite, existing_dates,
                   local_dates, missing_dates, fut, fault, publishedAtPlan, prev, sameRemote>>

\* The wait that ends at the first future handed over.
LoopDone_first_completed == collected # {} \/ \A d \in Days : fut[d] = "none"

\* The loop over as_completed ends, and the with block is left, when every
\* future has been handed over.
LoopDone == collected = {d \in Days : fut[d] # "none"}

Return ==
    /\ pc = "as_completed"
    /\ LoopDone
    /\ pc' = "returned"
    /\ UNCHANGED <<published, localFiles, summaryFile, crashSite, existing_dates,
                   local_dates, missing_dates, fut, fault, collected, caught,
                   publishedAtPlan, prev, sameRemote>>

\* The rebuild conditioned on a download having succeeded.
RebuildCondition_some_success == \E d \in Days : fault[d] = "ok"

\* show_plot: if new_data:
RebuildCondition == missing_dates # {}

\* show_plot: summarize_liquidations(coin=coin, market=market)
Summarize ==
    /\ pc = "returned"
    /\ RebuildCondition
    /\ \E all_files \in glob :
          LET r == summarize_liquidations(all_files)
          IN IF r.raised = "none"
             THEN /\ summaryFile' = [exists |-> TRUE, table |-> r.table]
                  /\ pc' = "summarized"
                  /\ crashSite' = crashSite
             ELSE /\ summaryFile' = summaryFile
                  /\ pc' = "crashed"
                  /\ crashSite' = "summarize_liquidations"
    /\ UNCHANGED <<published, localFiles, existing_dates, local_dates, missing_dates,
                   fut, fault, collected, caught, publishedAtPlan, prev, sameRemote>>

\* show_plot: pd.read_csv of the summary file, then the plot
Load ==
    /\ \/ pc = "summarized"
       \/ pc = "returned" /\ ~RebuildCondition
    /\ IF summaryFile.exists
       THEN pc' = "plotted" /\ crashSite' = crashSite
       ELSE pc' = "crashed" /\ crashSite' = "read_csv"
    /\ UNCHANGED <<published, localFiles, summaryFile, existing_dates, local_dates,
                   missing_dates, fut, fault, collected, caught, publishedAtPlan, prev, sameRemote>>

\* The program ends, by the plot or by the exception, and is run again.
Rerun ==
    /\ pc \in {"plotted", "crashed"}
    /\ prev' = [has |-> TRUE,
                nofile |-> {x \in missing_dates : fault[strptime(x)] \in LeavesNothing},
                published |-> publishedAtPlan]
    /\ pc' = "idle"
    /\ crashSite' = "none"
    /\ existing_dates' = {}
    /\ local_dates' = {}
    /\ missing_dates' = {}
    /\ fut' = NoJobs
    /\ fault' = NoJobs
    /\ collected' = {}
    /\ caught' = {}
    /\ publishedAtPlan' = {}
    /\ UNCHANGED <<published, localFiles, summaryFile, sameRemote>>

\* The remote store publishes the archive of one more day. A run reads the
\* store once, in its listing, so what is published while a run is under
\* way is seen as if published after it.
Publish(d) ==
    /\ pc = "idle"
    /\ d \notin published
    /\ published' = published \cup {d}
    /\ UNCHANGED <<localFiles, summaryFile, pc, crashSite, existing_dates, local_dates,
                   missing_dates, fut, fault, collected, caught, publishedAtPlan, prev, sameRemote>>

Next ==
    \/ GetNewData
    \/ \E d \in Days : Start(d)
    \/ \E d \in Days, f \in Faults : Finish(d, f)
    \/ \E d \in Days : Collect(d)
    \/ Return
    \/ Summarize
    \/ Load
    \/ Rerun
    \/ \E d \in Days : Publish(d)

Spec == Init /\ [][Next]_vars

----------------------------------------------------------------------------
(* The summary over an arbitrary raw corpus *)

\* Rows the corpus is built from: both sides on one day, a later day, a row
\* of quantity 0.
RowPool ==
    { Row(1000, "BUY", 2, 100), Row(2000, "SELL", 1, 200),
      Row(DayMs, "BUY", 1, 100), Row(DayMs + 5, "SELL", 0, 200) }

RECURSIVE RowCount(_)
RowCount(files) ==
    IF files = {} THEN 0
    ELSE LET f == CHOOSE g \in files : TRUE
         IN Len(f.rows) + RowCount(files \ {f})

TotalRows == RowCount(localFiles)

InitAgg ==
    /\ published = {}
    /\ localFiles = {}
    /\ summaryFile = NoSummary
    /\ pc = "corpus"
    /\ crashSite = "none"
    /\ existing_dates = {}
    /\ local_dates = {}
    /\ missing_dates = {}
    /\ fut = NoJobs
    /\ fault = NoJobs
    /\ collected = {}
    /\ caught = {}
    /\ publishedAtPlan = {}
    /\ prev = [has |-> FALSE, nofile |-> {}, published |-> {}]
    /\ sameRemote = FALSE

\* One more row in the raw file of day d.
AggWrite(d, r) ==
    /\ pc = "corpus"
    /\ TotalRows < MaxRows
    /\ LET old == {f \in localFiles : f.name = CsvName(d)}
           rows == IF old = {} THEN <<>> ELSE (CHOOSE f \in old : TRUE).rows
       IN localFiles' = WriteFile(localFiles, CsvName(d), Append(rows, r))
    /\ UNCHANGED <<published, summaryFile, pc, crashSite, existing_dates, local_dates,
                   missing_dates, fut, fault, collected, caught, publishedAtPlan,
                   prev, sameRemote>>

\* summarize_liquidations() on the corpus
AggSummarize ==
    /\ pc = "corpus"
    /\ \E all_files \in glob :
          LET r == summarize_liquidations(all_files)
          IN IF r.raised = "none"
             THEN /\ summaryFile' = [exists |-> TRUE, table |-> r.table]
                  /\ pc' = "summarized"
                  /\ crashSite' = crashSite
             ELSE /\ summaryFile' = summaryFile
                  /\ pc' = "crashed"
                  /\ crashSite' = "summarize_liquidations"
    /\ UNCHANGED <<published, localFiles, existing_dates, local_dates, missing_dates,
                   fut, fault, collected, caught, publishedAtPlan, prev, sameRemote>>

NextAgg ==
    \/ \E d \in Days, r \in RowPool : AggWrite(d, r)
    \/ AggSummarize

SpecAgg == InitAgg /\ [][NextAgg]_vars

----------------------------------------------------------------------------
(* Claims *)

DateOf(d) == <<DateText[d]>>

Submitted == {d \in Days : fut[d] # "none"}

AfterReturn == {"returned", "summarized", "plotted", "crashed"}

HasCompleteFile(d) == [name |-> CsvName(d), rows |-> ArchiveRows(d)] \in localFiles

\* C1, as stated: when show_plot is run again and the remote store is as the
\* run before listed it, get_new_data finds no missing date and submits no
\* job.
C1_SecondRunFetchesNothing ==
    (pc # "idle" /\ sameRemote) => (missing_dates = {} /\ Submitted = {})

\* C1, amended: when show_plot is run again and the remote store is as the
\* run before listed it, get_new_data fetches exactly the dates whose job of
\* the run before left no file of the date in the directory (its request
\* failed, its payload was no archive, or its directories could not be
\* made); it fetches nothing when every job of the run before left a file.
C1_SecondRunFetchesWhatHasNoFile ==
    (pc # "idle" /\ sameRemote) =>
        /\ missing_dates = prev.nofile
        /\ Submitted = {strptime(x) : x \in prev.nofile}

C1_Witness_Refetch ==
    /\ pc = "returned"
    /\ sameRemote
    /\ missing_dates # {}
    /\ \E d \in Submitted : fault[d] = "ok"

\* C2: when one job of a run fails, by a caught download or archive error or
\* by an exception of its own, every other submitted job still finishes, a
\* job the environment did not disturb leaves the complete file of its
\* date, and get_new_data returns: no exception leaves it.
C2_FailureIsIsolated ==
    /\ crashSite # "get_new_data"
    /\ pc \in AfterReturn =>
          \A x \in missing_dates :
              /\ fut[strptime(x)] \in Finished
              /\ fault[strptime(x)] = "ok" => HasCompleteFile(strptime(x))

C2_Witness_OneFailsOthersComplete ==
    /\ pc = "returned"
    /\ \E d, g \in Submitted :
          /\ fault[d] # "ok"
          /\ fault[g] = "ok" /\ HasCompleteFile(g)

\* C3, as stated: a job that ended in an extraction failure (BadZipFile,
\* from opening the payload or from writing a member) has left no file
\* from which get_local_dates reads its date.
C3_ExtractFailureLeavesNoFile ==
    \A d \in Days :
        fault[d] \in {"notzip", "badcrc"} => DateOf(d) \notin get_local_dates

\* C4: the dates get_new_data plans to fetch, submits and returns are the
\* listed remote dates minus the local dates: none when the two sets are
\* equal, all the remote dates when there is no local date. The remote
\* dates are dates of published archives.
C4_MissingIsRemoteMinusLocal ==
    pc # "idle" =>
        /\ missing_dates = existing_dates \ local_dates
        /\ \A x \in missing_dates : x \in existing_dates /\ x \notin local_dates
        /\ \A x \in existing_dates : x \in local_dates \/ x \in missing_dates
        /\ local_dates = existing_dates => missing_dates = {}
        /\ local_dates = {} => missing_dates = existing_dates
        /\ existing_dates \subseteq {DateOf(d) : d \in publishedAtPlan}
        /\ Submitted = {d \in Days : DateOf(d) \in missing_dates}

C4_Witness_ProperDifference ==
    /\ pc = "returned"
    /\ missing_dates # {}
    /\ missing_dates # existing_dates
    /\ local_dates \ existing_dates # {}

\* C5, as stated: the remote dates a run works from are the dates of all
\* the archives the store published when the listing was made.
C5_ListingIsExhaustive ==
    pc # "idle" => existing_dates = {DateOf(d) : d \in publishedAtPlan}

\* C6: once get_new_data has returned, every job it submitted has finished,
\* normally or by an exception; none is pending or running while show_plot
\* goes on to the summary.
C6_ReturnsAfterAllJobs ==
    pc \in AfterReturn => \A d \in Submitted : fut[d] \in Finished

C6_Witness_ReturnedAfterSeveralJobs ==
    /\ pc = "summarized"
    /\ Cardinality(Submitted) >= 2
    /\ \E d, e \in Submitted : fut[d] = "raised" /\ fut[e] = "returned"

C8_EmptyCorpusIsNotAnError ==
    ( /\ {f \in localFiles : endswith(f.name, "csv")} = {}
      /\ pc \in {"summarized", "crashed"}
      /\ crashSite # "read_csv" ) =>
        (pc = "summarized" /\ summaryFile = [exists |-> TRUE, table |-> <<>>])

\* C9: the summary summarize_liquidations writes has its rows in strictly
\* ascending order of date, hence at most one row for a date.
C9_SummaryStrictlyAscending ==
    summaryFile.exists =>
        \A i, j \in DOMAIN summaryFile.table :
            i < j => summaryFile.table[i].date < summaryFile.table[j].date

C9_Witness_DuplicatesAndBothSides ==
    /\ pc = "summarized"
    /\ Len(summaryFile.table) >= 2
    /\ Cardinality(localFiles) >= 2
    /\ \E f \in localFiles :
          /\ Len(f.rows) >= 3
          /\ f.rows[1] = f.rows[3]
          /\ f.rows[1].side # f.rows[2].side
          /\ convert_timestamp_to_date(f.rows[1].time)
                 = convert_timestamp_to_date(f.rows[2].time)
    /\ \E f, g \in localFiles :
          /\ f.name = CsvName(1) /\ g.name = CsvName(2)
          /\ convert_timestamp_to_date(g.rows[1].time)
                 < convert_timestamp_to_date(f.rows[1].time)

\* C10: when get_new_data has returned, show_plot calls
\* summarize_liquidations exactly if the set returned is not empty, whatever
\* became of the downloads; when it is empty, the summary file is read as
\* it is, unchanged.
C10_RebuildIffMissingReturned ==
    [][ pc = "returned" =>
          IF missing_dates # {}
          THEN \/ pc' = "summarized" /\ summaryFile'.exists
               \/ pc' = "crashed" /\ crashSite' = "summarize_liquidations"
          ELSE /\ summaryFile' = summaryFile
               /\ \/ pc' = "plotted" /\ summaryFile.exists
                  \/ pc' = "crashed" /\ crashSite' = "read_csv" ]_vars

C10_Witness_RebuiltThoughNothingDownloaded ==
    /\ pc = "summarized"
    /\ missing_dates # {}
    /\ \A d \in Submitted : fault[d] \in LeavesNothing

====
